---- MODULE Spec2Model ----
(***************************************************************************)
(* yanu: patching a base package with its update package.                  *)
(* The model follows patch_nsp_with_update (src/src/hac/patch.rs) stage by *)
(* stage, with the Package handle and the content-unit classifier of       *)
(* src/src/hac/rom.rs and the title-key text of                            *)
(* crates/hac/src/vfs/ticket.rs.  External tools and the file system are   *)
(* the environment: their outcomes are chosen with \E.                     *)
(***************************************************************************)
EXTENDS Integers, Sequences, FiniteSets, TLC

(* ------------------------------ bounds --------------------------------- *)
\* most files an extracted package holds
MaxFiles == 2
\* file sizes are 1..MaxSize
MaxSize == 2
\* most derive_title_key calls made on one Package
MaxCalls == 3
\* most entries the walk of a ticket search directory yields
MaxEntries == 2
\* most directories registered with one CleanupDirsOnDrop
MaxDirs == 2
\* most lines of an inspector report
MaxLines == 2
\* ticket blobs are filled from the seeds 0..MaxSeed
MaxSeed == 4
\* most tokens of a file name given to Nsp::from
MaxTokens == 3

(* -------------------------- program constants -------------------------- *)
TITLEID_SZ == 16
COMMON_KEY_SIZE == 16
\* TicketData::TitleId = 0x2a0 and TicketData::TitleKey = 0x180, the offsets
TicketDataTitleId == 672
TicketDataTitleKey == 384

\* Option<T>: None, or Some(x)
None == <<>>
Some(x) == <<x>>
Get(o) == o[1]

(* ------------------------------ paths ---------------------------------- *)
\* A path is [dir, name]: dir the sequence of directory components, name the
\* file name as a sequence of tokens in which "." is a token of its own.
Dot == "."
MkPath(d, n) == [dir |-> d, name |-> n]

RECURSIVE LastDot(_, _)
LastDot(name, i) ==
    IF i = 0 THEN 0
    ELSE IF name[i] = Dot THEN i ELSE LastDot(name, i - 1)

\* Path::extension: the part of the file name after its last ".", absent when
\* the name has no "." or only a leading one.
Extension(p) ==
    LET k == LastDot(p.name, Len(p.name))
    IN  IF k <= 1 THEN None ELSE Some(SubSeq(p.name, k + 1, Len(p.name)))

\* Path::file_name and Path::join
FileName(p) == p.name
Join(d, n) == MkPath(d, n)
DirOf(p) == p.dir

(* ----------------------------- title keys ------------------------------ *)
HexDigits == <<"0","1","2","3","4","5","6","7","8","9","a","b","c","d","e","f">>

RECURSIVE HexEncode(_)
HexEncode(bytes) ==
    IF bytes = <<>> THEN <<>>
    ELSE <<HexDigits[(Head(bytes) \div 16) + 1], HexDigits[(Head(bytes) % 16) + 1]>>
         \o HexEncode(Tail(bytes))

\* impl fmt::Display for TitleKey
TitleKeyToString(k) == HexEncode(k.title_id) \o <<"=">> \o HexEncode(k.key)

\* Nsp::get_title_key
GetTitleKey(nsp) ==
    IF nsp.title_key # None THEN TitleKeyToString(Get(nsp.title_key)) ELSE <<"=">>

\* the keys the two tickets hold
BaseKey == [title_id |-> [i \in 1..COMMON_KEY_SIZE |-> IF i = 1 THEN 1 ELSE 0],
            key      |-> [i \in 1..COMMON_KEY_SIZE |-> 160 + i]]
UpdateKey == [title_id |-> [i \in 1..COMMON_KEY_SIZE |-> IF i = 1 THEN 1 ELSE IF i = 7 THEN 8 ELSE 0],
              key      |-> [i \in 1..COMMON_KEY_SIZE |-> 16 * i - 1]]

NL == "\n"
\* the two entries the other way round
FormatKeyRecordSwapped(a, b) == b \o <<NL>> \o a

\* format!("{}\n{}", a, b)
FormatKeyRecord(a, b) == a \o <<NL>> \o b

\* the entries of a record: its text split at the newlines
RECURSIVE SplitLines(_)
SplitLines(text) ==
    IF \A i \in 1..Len(text) : text[i] # NL THEN <<text>>
    ELSE LET k == CHOOSE i \in 1..Len(text) :
                      text[i] = NL /\ \A j \in 1..(i - 1) : text[j] # NL
         IN  <<SubSeq(text, 1, k - 1)>> \o SplitLines(SubSeq(text, k + 1, Len(text)))

(* ------------------------- the classifier ------------------------------ *)
NcaTypes == {"Control", "Program", "Meta", "Manual"}

\* An inspector run: status is "success", "failure" (non-success exit) or
\* "spawn_error"; utf8 says whether its output is valid UTF-8; lines are the
\* lines of the report, each [marker, last] with marker the marker text the
\* line contains ("Title ID:", "Content Type:" or "") and last its last token.
Line(m, t) == [marker |-> m, last |-> t]

RECURSIVE FirstWith(_, _)
\* the last token of the first line containing the marker, None without one
FirstWith(lines, m) ==
    IF lines = <<>> THEN None
    ELSE IF Head(lines).marker = m THEN Some(Head(lines).last)
    ELSE FirstWith(Tail(lines), m)

Ok(nca) == [kind |-> "Ok", nca |-> nca]
Err(why) == [kind |-> "Err", why |-> why]
Panic(why) == [kind |-> "Panic", why |-> why]

\* Nca::from
NcaFrom(path, report) ==
    LET tl == FirstWith(report.lines, "Title ID:")
        cl == FirstWith(report.lines, "Content Type:")
    IN  IF Extension(path) = None THEN Err("no file found")
        ELSE IF Extension(path) # Some(<<"nca">>) THEN Err("not a nca file")
        ELSE IF report.status = "spawn_error" THEN Err("io")
        ELSE IF report.status # "success" THEN Err("hactool failed to view info")
        ELSE IF ~report.utf8 THEN Err("utf8")
        ELSE IF cl = None THEN Panic("content type should've been found")
        ELSE IF Get(cl) \notin NcaTypes THEN Err("failed to identify nca content type")
        ELSE Ok([path |-> path, title_id |-> tl, content_type |-> Get(cl)])

(* -------------------- what an extracted package holds ------------------ *)
\* title ids the inspector reports: one longer than TITLEID_SZ, one shorter
IdLong == [i \in 1..(TITLEID_SZ + 1) |-> IF i = 2 THEN "1" ELSE IF i = 17 THEN "f" ELSE "0"]
IdShort == <<"0", "1", "0", "8">>

Report(st, ls) == [status |-> st, utf8 |-> TRUE, lines |-> ls]
NcaName(stem) == <<stem, Dot, "nca">>

\* the files the unpacker may leave behind: name and what the inspector
\* says of the file
SampleList ==
    << [name |-> NcaName("progA"),
        report |-> Report("success", <<Line("", "NCA:"), Line("Title ID:", IdLong),
                                       Line("Content Type:", "Program")>>)],
       [name |-> NcaName("progN"),
        report |-> Report("success", <<Line("Content Type:", "Program")>>)],
       [name |-> NcaName("ctrl"),
        report |-> Report("success", <<Line("Content Type:", "Control"),
                                       Line("Title ID:", IdShort)>>)],
       [name |-> NcaName("noline"),
        report |-> Report("success", <<Line("Title ID:", IdShort)>>)],
       [name |-> NcaName("fail"),
        report |-> Report("failure", <<>>)] >>

Range(f) == { f[i] : i \in DOMAIN f }
Samples == Range(SampleList)

\* the inspector's run on the file of this name (a directory is no unit)
ReportOf(name) ==
    IF \E s \in Samples : s.name = name
    THEN (CHOOSE s \in Samples : s.name = name).report
    ELSE Report("failure", <<>>)

\* a file of a directory: the name of a sample, with a size; rel is the
\* directory it is in, relative to the extraction directory
SubDirName == <<"sub">>
InSub == <<SubDirName>>
File(n, z, r) == [name |-> n, size |-> z, rel |-> r, isDir |-> FALSE]
DirEntry(name, rel, z) == [name |-> name, size |-> z, rel |-> rel, isDir |-> TRUE]

\* the entries an extraction directory may hold, numbered: the files by
\* sample, directory and size, then the sub-directory by the size the file
\* system reports for it
NSlots == 2 * Len(SampleList)
NFiles == NSlots * MaxSize
SlotOf(i) == ((i - 1) % NSlots) + 1
Entry(i) ==
    IF i <= NFiles
    THEN File(SampleList[((SlotOf(i) - 1) \div 2) + 1].name,
              ((i - 1) \div NSlots) + 1,
              IF SlotOf(i) % 2 = 1 THEN <<>> ELSE InSub)
    ELSE DirEntry(SubDirName, <<>>, i - NFiles)
Entries == [i \in 1..(NFiles + MaxSize) |-> Entry(i)]

\* the sets of at most MaxFiles files, no two of one directory with one name
FileSets ==
    { Range(f) :
        f \in { g \in UNION { [1..k -> 1..NFiles] : k \in 0..MaxFiles } :
                  \A i, j \in DOMAIN g :
                     i < j => g[i] < g[j] /\ SlotOf(g[i]) # SlotOf(g[j]) } }

\* a tree: its files, with the sub-directory when a file is in it
Trees ==
    { t \in { fs \cup d : fs \in FileSets,
                          d \in {{}} \cup { {NFiles + z} : z \in 1..MaxSize } } :
        (\E i \in t : i > NFiles) <=> (\E i \in t : Entries[i].rel = InSub) }

(* ------------------------------ the walk ------------------------------- *)
\* the comparator given to WalkDir::sort_by: by metadata().len()
SizeCmp(a, b) == a.size <= b.size

\* the orders sort_by may leave a directory's entries in: ascending by the
\* comparator, entries that compare equal in any order (read_dir's)
RECURSIVE SortedOrders(_)
SortedOrders(S) ==
    IF S = {} THEN {<<>>}
    ELSE UNION { { <<m>> \o rest : rest \in SortedOrders(S \ {m}) } :
                 m \in { x \in S : \A y \in S : SizeCmp(Entries[x], Entries[y]) } }

RECURSIVE Expand(_, _)
\* depth first: a directory is followed by its own entries
Expand(top, below) ==
    IF top = <<>> THEN <<>>
    ELSE <<Head(top)>> \o (IF Entries[Head(top)].isDir THEN below ELSE <<>>)
         \o Expand(Tail(top), below)

\* WalkDir::new(root).sort_by(..).into_iter(): the orders it may yield the
\* entries of tree t in, after the root itself
WalkOrders(t) ==
    { Expand(a, b) : a \in SortedOrders({ i \in t : Entries[i].rel = <<>> }),
                     b \in SortedOrders({ i \in t : Entries[i].rel = InSub }) }

\* every order of every tree, as the numbers of the entries
Walks == UNION { WalkOrders(t) : t \in Trees }
\* the entries of a walk
EntriesOf(w) == [i \in 1..Len(w) |-> Entries[w[i]]]

\* Path of a directory given as a path: its components
AsDir(p) == Append(p.dir, p.name)
EntryPath(root, e) == MkPath(AsDir(root) \o e.rel, e.name)

\* what the loop over the walk of root sees: the root first, then the entries
LoopEntries(root, order) ==
    <<[path |-> root, report |-> ReportOf(root.name)]>>
    \o [i \in 1..Len(order) |-> [path |-> EntryPath(root, order[i]),
                                  report |-> ReportOf(order[i].name)]]

IsNca(p) == Extension(p) = Some(<<"nca">>)
ExitedNonSuccess(rep) == rep.status = "failure"

RECURSIVE BaseLoop(_)
\* patch.rs 55-89: the first Program unit of the walk; a unit that fails to
\* classify is skipped with a warning; sel is the unit, end is "end" or
\* "panic", failed says whether an inspector run that exited non-success
\* was skipped
BaseLoop(es) ==
    IF es = <<>> THEN [sel |-> None, end |-> "end", failed |-> FALSE]
    ELSE IF ~IsNca(Head(es).path) THEN BaseLoop(Tail(es))
    ELSE LET r == NcaFrom(Head(es).path, Head(es).report)
         IN  CASE r.kind = "Ok" ->
                    IF r.nca.content_type = "Program"
                    THEN [sel |-> Some(r.nca), end |-> "end", failed |-> FALSE]
                    ELSE BaseLoop(Tail(es))
               [] r.kind = "Err" ->
                    LET rest == BaseLoop(Tail(es))
                    IN  [rest EXCEPT !.failed = @ \/ ExitedNonSuccess(Head(es).report)]
               [] r.kind = "Panic" ->
                    [sel |-> None, end |-> "panic", failed |-> FALSE]

RECURSIVE UpdateLoopLastWins(_, _)
\* the loop without the is_none guards: a later unit of a type replaces the
\* earlier one
UpdateLoopLastWins(es, acc) ==
    IF es = <<>> THEN acc
    ELSE IF ~IsNca(Head(es).path) THEN UpdateLoopLastWins(Tail(es), acc)
    ELSE LET r == NcaFrom(Head(es).path, Head(es).report)
         IN  CASE r.kind = "Ok" ->
                    UpdateLoopLastWins(Tail(es),
                        CASE r.nca.content_type = "Control" ->
                               [acc EXCEPT !.control = Some(r.nca)]
                          [] r.nca.content_type = "Program" ->
                               [acc EXCEPT !.program = Some(r.nca)]
                          [] OTHER -> acc)
               [] r.kind = "Err" ->
                    UpdateLoopLastWins(Tail(es),
                        [acc EXCEPT !.failed = @ \/ ExitedNonSuccess(Head(es).report)])
               [] r.kind = "Panic" -> [acc EXCEPT !.end = "panic"]

RECURSIVE UpdateLoop(_, _)
\* patch.rs 92-129: the first Control and the first Program unit of the
\* walk; acc is [control, program, end, failed]
UpdateLoop(es, acc) ==
    IF es = <<>> THEN acc
    ELSE IF ~IsNca(Head(es).path) THEN UpdateLoop(Tail(es), acc)
    ELSE LET r == NcaFrom(Head(es).path, Head(es).report)
         IN  CASE r.kind = "Ok" ->
                    UpdateLoop(Tail(es),
                        CASE r.nca.content_type = "Control" ->
                               IF acc.control = None
                               THEN [acc EXCEPT !.control = Some(r.nca)] ELSE acc
                          [] r.nca.content_type = "Program" ->
                               IF acc.program = None
                               THEN [acc EXCEPT !.program = Some(r.nca)] ELSE acc
                          [] OTHER -> acc)
               [] r.kind = "Err" ->
                    UpdateLoop(Tail(es),
                        [acc EXCEPT !.failed = @ \/ ExitedNonSuccess(Head(es).report)])
               [] r.kind = "Panic" -> [acc EXCEPT !.end = "panic"]

UpdateLoopStart == [control |-> None, program |-> None, end |-> "end", failed |-> FALSE]

(* ----------------------------- the state ------------------------------- *)
VARIABLES
    pc,            \* the stage patch_nsp_with_update is at
    outcome,       \* how the run ends ("none", "ok", "error", "panic"), at which stage
    base, update,  \* the two Package handles: [path, title_key]
    dirs,          \* the TempDir locals base_data_path, update_data_path, patch_dir
    keyFile,       \* the content of ~/.switch/title.keys, None when absent
    walked,        \* the walk the WalkDir iterator of the last loop took
    base_nca, control_nca, update_nca, pactched_nca,
    ncaDir,        \* the files in patch_dir/nca
    title_id,      \* the normalized id
    calls,         \* the unpack, merge/convert and pack runs, in order
    inspectFailed, \* an inspector run skipped by a scan exited non-success
    result         \* the returned Package

\* the state of the parts checked on their own, outside a run of the pipeline
VARIABLES
    arg, ret,      \* the argument a function is applied to, and what it returned
    pkg, derived,  \* a Package, and the derive_title_key calls made on it
    guard, fsys    \* a CleanupDirsOnDrop, and the directories of the file system

pipelineVars ==
    <<pc, outcome, base, update, dirs, keyFile, walked, base_nca, control_nca,
      update_nca, pactched_nca, ncaDir, title_id, calls, inspectFailed, result>>
unitVars == <<arg, ret, pkg, derived, guard, fsys>>
vars == <<pipelineVars, unitVars>>

\* a part that is not in use
Idle == <<>>
UnitsIdle ==
    /\ arg = Idle /\ ret = Idle
    /\ pkg = Idle /\ derived = Idle
    /\ guard = Idle /\ fsys = Idle

TmpName == <<"tmp">>
BaseData == MkPath(<<TmpName>>, <<"basedata", Dot, "x7Kq">>)
UpdateData == MkPath(<<TmpName>>, <<"updatedata", Dot, "T2bn">>)
PatchDir == MkPath(<<TmpName>>, <<"patch", Dot, "m4Zs">>)
RomfsDir == MkPath(AsDir(PatchDir), <<"romfs">>)
ExefsDir == MkPath(AsDir(PatchDir), <<"exefs">>)
NcaDir == MkPath(AsDir(PatchDir), <<"nca">>)
OutDir == MkPath(<<<<"opt">>>>, <<"yanu">>)
KeysetPath == MkPath(<<<<"home">>, <<Dot, "switch">>>>, <<"prod", Dot, "keys">>)

BasePath == MkPath(<<<<"roms">>>>, <<"game", Dot, "nsp">>)
UpdatePath == MkPath(<<<<"roms">>>>, <<"game-update", Dot, "nsp">>)

\* what title.keys may hold before the run
OldKeyRecord == <<"0", "1", "=", "f", "f", NL>>

Exits == {"success", "failure", "spawn_error"}
Call(tool, args, st) == [tool |-> tool, args |-> args, status |-> st]

\* a construction that compares the extension without regard to case
NspFromIgnoreCase(path) ==
    IF Extension(path) = None THEN Err("no file found")
    ELSE IF Extension(path) \notin {Some(<<"nsp">>), Some(<<"NSP">>)}
         THEN Err("not a nsp file")
    ELSE Ok([path |-> path, title_key |-> None])

\* Nsp::from
NspFrom(path) ==
    IF Extension(path) = None THEN Err("no file found")
    ELSE IF Extension(path) # Some(<<"nsp">>) THEN Err("not a nsp file")
    ELSE Ok([path |-> path, title_key |-> None])

Init ==
    /\ pc = "start"
    /\ outcome = [how |-> "none", at |-> "none"]
    /\ base = NspFrom(BasePath).nca
    /\ update = NspFrom(UpdatePath).nca
    /\ dirs = [d \in {"base", "update", "patch"} |-> "none"]
    /\ keyFile \in {None, Some(OldKeyRecord)}
    /\ walked = None
    /\ base_nca = None
    /\ control_nca = None
    /\ update_nca = None
    /\ pactched_nca = None
    /\ ncaDir = {}
    /\ title_id = None
    /\ calls = <<>>
    /\ inspectFailed = FALSE
    /\ result = None
    /\ UnitsIdle

\* the function ends, by return ("ok"), by an error return of bail! or ?
\* ("error") or by a panic of expect ("panic"): the locals are dropped next
Ends(how) == pc' = "unwinding" /\ outcome' = [how |-> how, at |-> pc]
Goes(stage) == pc' = stage /\ outcome' = outcome

\* a drop that leaves the directory behind
DropTempDirLeak(st, removed) == st

\* TempDir's drop: the removal of the directory is attempted, its failure ignored
DropTempDir(st, removed) ==
    IF st = "live" THEN (IF removed THEN "removed" ELSE "remove_failed") ELSE st

\* whether remove_dir_all goes through; nothing is tried on a directory
\* that is not alive
RemovalOutcomes(st) == IF st = "live" THEN BOOLEAN ELSE {TRUE}

Attempted(st) == st \in {"removed", "remove_failed"}

(* ----------------------------- the stages ------------------------------ *)
\* patch.rs 19-20
ResolveBackends ==
    /\ pc = "start"
    /\ UNCHANGED unitVars
    /\ \/ Goes("tempdirs")
       \/ Ends("error")
    /\ UNCHANGED <<base, update, dirs, keyFile, walked, base_nca, control_nca,
                   update_nca, pactched_nca, ncaDir, title_id, calls, inspectFailed,
                   result>>

\* patch.rs 22-25
CreateTempDirs ==
    /\ pc = "tempdirs"
    /\ UNCHANGED unitVars
    /\ \/ /\ Ends("error")                         \* TempDir::new("basedata")?
          /\ dirs' = dirs
       \/ /\ Ends("error")                         \* TempDir::new("updatedata")?
          /\ dirs' = [dirs EXCEPT !.base = "live"]
       \/ /\ Ends("error")                         \* fs::create_dir_all(..)?
          /\ dirs' = [dirs EXCEPT !.base = "live", !.update = "live"]
       \/ /\ Goes("extract_base")
          /\ dirs' = [dirs EXCEPT !.base = "live", !.update = "live"]
    /\ UNCHANGED <<base, update, keyFile, walked, base_nca, control_nca,
                   update_nca, pactched_nca, ncaDir, title_id, calls, inspectFailed,
                   result>>

\* an extraction that does not look at the exit status of the unpacker
ExtractDataToUnchecked(nsp, dir, st) ==
    [call |-> Call("unpack", [t |-> "pfs0", pfs0dir |-> dir, input |-> nsp.path], st),
     ok   |-> st # "spawn_error"]

\* Nsp::extract_data_to, rom.rs 59-84: the run of the unpacker and whether
\* the extraction went through
ExtractDataTo(nsp, dir, st) ==
    [call |-> Call("unpack", [t |-> "pfs0", pfs0dir |-> dir, input |-> nsp.path], st),
     ok   |-> st = "success"]

\* patch.rs 27
ExtractBase ==
    /\ pc = "extract_base"
    /\ UNCHANGED unitVars
    /\ \E st \in Exits :
         LET r == ExtractDataTo(base, BaseData, st)
         IN  /\ calls' = Append(calls, r.call)
             /\ IF r.ok THEN Goes("extract_update") ELSE Ends("error")
    /\ UNCHANGED <<base, update, dirs, keyFile, walked, base_nca, control_nca,
                   update_nca, pactched_nca, ncaDir, title_id, inspectFailed, result>>

\* patch.rs 28
ExtractUpdate ==
    /\ pc = "extract_update"
    /\ UNCHANGED unitVars
    /\ \E st \in Exits :
         LET r == ExtractDataTo(update, UpdateData, st)
         IN  /\ calls' = Append(calls, r.call)
             /\ IF r.ok THEN Goes("derive_base") ELSE Ends("error")
    /\ UNCHANGED <<base, update, dirs, keyFile, walked, base_nca, control_nca,
                   update_nca, pactched_nca, ncaDir, title_id, inspectFailed, result>>

\* a derivation that scans whether or not a key is present
DeriveTitleKeyRescan(nsp, found) ==
    IF found = None THEN [nsp |-> nsp, ok |-> FALSE]
    ELSE IF Get(found).kind = "Err" THEN [nsp |-> nsp, ok |-> FALSE]
    ELSE [nsp |-> [nsp EXCEPT !.title_key = Some(Get(found).nca)], ok |-> TRUE]

\* Nsp::derive_title_key, rom.rs 85-109.  found is what the scan for a ticket
\* comes to: Ok(key) for the key of the first .tik file, Err when the walk or
\* the ticket reader fails, None when the directory has no .tik file
DeriveTitleKey(nsp, found) ==
    IF nsp.title_key = None
    THEN IF found = None THEN [nsp |-> nsp, ok |-> FALSE]
         ELSE IF Get(found).kind = "Err" THEN [nsp |-> nsp, ok |-> FALSE]
         ELSE [nsp |-> [nsp EXCEPT !.title_key = Some(Get(found).nca)], ok |-> TRUE]
    ELSE [nsp |-> nsp, ok |-> TRUE]

TicketScans(key) == {None, Some(Err("io")), Some(Ok(key))}

\* patch.rs 30-35: a failure is logged, nothing more
DeriveBase ==
    /\ pc = "derive_base"
    /\ UNCHANGED unitVars
    /\ \E found \in TicketScans(BaseKey) :
         base' = DeriveTitleKey(base, found).nsp
    /\ Goes("derive_update")
    /\ UNCHANGED <<update, dirs, keyFile, walked, base_nca, control_nca,
                   update_nca, pactched_nca, ncaDir, title_id, calls, inspectFailed,
                   result>>

\* patch.rs 36-41
DeriveUpdate ==
    /\ pc = "derive_update"
    /\ UNCHANGED unitVars
    /\ \E found \in TicketScans(UpdateKey) :
         update' = DeriveTitleKey(update, found).nsp
    /\ Goes("save_keys")
    /\ UNCHANGED <<base, dirs, keyFile, walked, base_nca, control_nca,
                   update_nca, pactched_nca, ncaDir, title_id, calls, inspectFailed,
                   result>>

\* patch.rs 43-53
SaveTitleKeys ==
    /\ pc = "save_keys"
    /\ UNCHANGED unitVars
    /\ \/ /\ Ends("error")           \* home_dir, create_dir_all or write fails
          /\ keyFile' = keyFile
       \/ /\ Goes("scan_base")
          /\ keyFile' = Some(FormatKeyRecord(GetTitleKey(base), GetTitleKey(update)))
    /\ UNCHANGED <<base, update, dirs, walked, base_nca, control_nca,
                   update_nca, pactched_nca, ncaDir, title_id, calls, inspectFailed,
                   result>>

\* every walk with what the loop over it comes to
BaseScans ==
    { [walk |-> w, r |-> BaseLoop(LoopEntries(BaseData, EntriesOf(w)))] : w \in Walks }
UpdateScans ==
    { [walk |-> w,
       r |-> UpdateLoop(LoopEntries(UpdateData, EntriesOf(w)), UpdateLoopStart)] :
        w \in Walks }

\* patch.rs 55-89
ScanBase ==
    /\ pc = "scan_base"
    /\ UNCHANGED unitVars
    /\ \/ \E s \in BaseScans :
            LET r == s.r
            IN  /\ walked' = Some(s.walk)
                /\ inspectFailed' = (inspectFailed \/ r.failed)
                /\ base_nca' = r.sel
                /\ IF r.end = "panic" THEN Ends("panic") ELSE Goes("expect_base")
       \/ /\ Ends("panic")              \* metadata() fails in the comparator
          /\ UNCHANGED <<walked, inspectFailed, base_nca>>
    /\ UNCHANGED <<base, update, dirs, keyFile, control_nca, update_nca,
                   pactched_nca, ncaDir, title_id, calls, result>>

\* patch.rs 90
ExpectBase ==
    /\ pc = "expect_base"
    /\ UNCHANGED unitVars
    /\ IF base_nca = None THEN Ends("panic") ELSE Goes("scan_update")
    /\ walked' = None
    /\ UNCHANGED <<base, update, dirs, keyFile, base_nca, control_nca, update_nca,
                   pactched_nca, ncaDir, title_id, calls, inspectFailed, result>>

\* patch.rs 92-129
ScanUpdate ==
    /\ pc = "scan_update"
    /\ UNCHANGED unitVars
    /\ \/ \E s \in UpdateScans :
            LET r == s.r
            IN  /\ walked' = Some(s.walk)
                /\ inspectFailed' = (inspectFailed \/ r.failed)
                /\ control_nca' = r.control
                /\ update_nca' = r.program
                /\ IF r.end = "panic" THEN Ends("panic") ELSE Goes("expect_update")
       \/ /\ Ends("panic")              \* metadata() fails in the comparator
          /\ UNCHANGED <<walked, inspectFailed, control_nca, update_nca>>
    /\ UNCHANGED <<base, update, dirs, keyFile, base_nca, pactched_nca, ncaDir,
                   title_id, calls, result>>

\* only the Program unit of the update is insisted on
ExpectUpdateProgramOnly ==
    /\ pc = "expect_update"
    /\ UNCHANGED unitVars
    /\ IF update_nca = None THEN Ends("panic") ELSE Goes("merge")
    /\ walked' = None
    /\ UNCHANGED <<base, update, dirs, keyFile, base_nca, control_nca, update_nca,
                   pactched_nca, ncaDir, title_id, calls, inspectFailed, result>>

\* patch.rs 130-131
ExpectUpdate ==
    /\ pc = "expect_update"
    /\ UNCHANGED unitVars
    /\ IF update_nca = None \/ control_nca = None
       THEN Ends("panic") ELSE Goes("merge")
    /\ walked' = None
    /\ UNCHANGED <<base, update, dirs, keyFile, base_nca, control_nca, update_nca,
                   pactched_nca, ncaDir, title_id, calls, inspectFailed, result>>

\* a merge/convert run whose non-success exit ends the run
MergeConvertFatal ==
    /\ pc = "merge"
    /\ UNCHANGED unitVars
    /\ \/ /\ Ends("error")
          /\ UNCHANGED <<dirs, calls>>
       \/ \E st \in Exits :
            /\ dirs' = [dirs EXCEPT !.patch = "live"]
            /\ calls' = Append(calls,
                   Call("merge", [basenca |-> Get(base_nca).path,
                                  updatenca |-> Get(update_nca).path,
                                  romfsdir |-> RomfsDir, exefsdir |-> ExefsDir], st))
            /\ IF st # "success" THEN Ends("error") ELSE Goes("relocate")
    /\ UNCHANGED <<base, update, keyFile, walked, base_nca, control_nca, update_nca,
                   pactched_nca, ncaDir, title_id, inspectFailed, result>>

\* patch.rs 133-157: a non-success exit of the merge/convert run is logged,
\* nothing more
MergeConvert ==
    /\ pc = "merge"
    /\ UNCHANGED unitVars
    /\ \/ /\ Ends("error")                          \* TempDir::new("patch")?
          /\ UNCHANGED <<dirs, calls>>
       \/ \E st \in Exits :
            /\ dirs' = [dirs EXCEPT !.patch = "live"]
            /\ calls' = Append(calls,
                   Call("merge", [basenca |-> Get(base_nca).path,
                                  updatenca |-> Get(update_nca).path,
                                  romfsdir |-> RomfsDir, exefsdir |-> ExefsDir], st))
            /\ IF st = "spawn_error" THEN Ends("error") ELSE Goes("relocate")
    /\ UNCHANGED <<base, update, keyFile, walked, base_nca, control_nca, update_nca,
                   pactched_nca, ncaDir, title_id, inspectFailed, result>>

\* a move of the Control unit that leaves control_nca.path as it was
RelocateControlStalePath ==
    /\ pc = "relocate"
    /\ UNCHANGED unitVars
    /\ \/ /\ Ends("error")
          /\ UNCHANGED <<ncaDir, control_nca>>
       \/ LET name == FileName(Get(control_nca).path)
          IN  /\ ncaDir' = {[name |-> name, report |-> ReportOf(name)]}
              /\ control_nca' = control_nca
              /\ Goes("early_cleanup")
    /\ UNCHANGED <<base, update, dirs, keyFile, walked, base_nca, update_nca,
                   pactched_nca, title_id, calls, inspectFailed, result>>

\* patch.rs 159-165: the Control unit moves into patch_dir/nca
RelocateControl ==
    /\ pc = "relocate"
    /\ UNCHANGED unitVars
    /\ \/ /\ Ends("error")                  \* create_dir_all or rename fails
          /\ UNCHANGED <<ncaDir, control_nca>>
       \/ LET name == FileName(Get(control_nca).path)
          IN  /\ ncaDir' = {[name |-> name, report |-> ReportOf(name)]}
              /\ control_nca' = Some([Get(control_nca) EXCEPT
                                        !.path = Join(AsDir(NcaDir), name)])
              /\ Goes("early_cleanup")
    /\ UNCHANGED <<base, update, dirs, keyFile, walked, base_nca, update_nca,
                   pactched_nca, title_id, calls, inspectFailed, result>>

\* an early cleanup that gives up the run when a removal fails
EarlyCleanupFatal ==
    /\ pc = "early_cleanup"
    /\ UNCHANGED unitVars
    /\ \E rb \in RemovalOutcomes(dirs.base), ru \in RemovalOutcomes(dirs.update) :
         /\ dirs' = [dirs EXCEPT !.base = DropTempDir(@, rb),
                                 !.update = DropTempDir(@, ru)]
         /\ IF rb /\ ru THEN Goes("normalize_id") ELSE Ends("error")
    /\ UNCHANGED <<base, update, keyFile, walked, base_nca, control_nca, update_nca,
                   pactched_nca, ncaDir, title_id, calls, inspectFailed, result>>

\* patch.rs 167-171: drop(base_data_path); drop(update_data_path)
EarlyCleanup ==
    /\ pc = "early_cleanup"
    /\ UNCHANGED unitVars
    /\ \E rb \in RemovalOutcomes(dirs.base), ru \in RemovalOutcomes(dirs.update) :
         dirs' = [dirs EXCEPT !.base = DropTempDir(@, rb),
                              !.update = DropTempDir(@, ru)]
    /\ Goes("normalize_id")
    /\ UNCHANGED <<base, update, keyFile, walked, base_nca, control_nca, update_nca,
                   pactched_nca, ncaDir, title_id, calls, inspectFailed, result>>

\* String::truncate
Truncate(str, n) == SubSeq(str, 1, IF Len(str) < n THEN Len(str) ELSE n)

\* an id taken from the Program unit of the update
NormalizeIdFromUpdate ==
    /\ pc = "normalize_id"
    /\ UNCHANGED unitVars
    /\ \/ /\ Ends("error")
          /\ title_id' = title_id
       \/ IF Get(update_nca).title_id = None
          THEN Ends("panic") /\ title_id' = title_id
          ELSE /\ title_id' = Some(Truncate(Get(Get(update_nca).title_id), TITLEID_SZ))
               /\ Goes("pack_program")
    /\ UNCHANGED <<base, update, dirs, keyFile, walked, base_nca, control_nca,
                   update_nca, pactched_nca, ncaDir, calls, inspectFailed, result>>

\* a missing title id replaced by the empty id
NormalizeIdOrDefault ==
    /\ pc = "normalize_id"
    /\ UNCHANGED unitVars
    /\ \/ /\ Ends("error")
          /\ title_id' = title_id
       \/ /\ title_id' = IF Get(base_nca).title_id = None THEN Some(<<>>)
                          ELSE Some(Truncate(Get(Get(base_nca).title_id), TITLEID_SZ))
          /\ Goes("pack_program")
    /\ UNCHANGED <<base, update, dirs, keyFile, walked, base_nca, control_nca,
                   update_nca, pactched_nca, ncaDir, calls, inspectFailed, result>>

\* patch.rs 173-175
NormalizeId ==
    /\ pc = "normalize_id"
    /\ UNCHANGED unitVars
    /\ \/ /\ Ends("error")                          \* get_keyset_path()?
          /\ title_id' = title_id
       \/ IF Get(base_nca).title_id = None
          THEN Ends("panic") /\ title_id' = title_id
          ELSE /\ title_id' = Some(Truncate(Get(Get(base_nca).title_id), TITLEID_SZ))
               /\ Goes("pack_program")
    /\ UNCHANGED <<base, update, dirs, keyFile, walked, base_nca, control_nca,
                   update_nca, pactched_nca, ncaDir, calls, inspectFailed, result>>

\* the units the Program pack may leave in its output directory: a unit the
\* inspector reads as a Program unit, or one it cannot read
Packed ==
    { [name |-> NcaName("patched"),
       report |-> Report("success", <<Line("Title ID:", IdShort),
                                      Line("Content Type:", "Program")>>)],
      [name |-> NcaName("patched"), report |-> Report("failure", <<>>)] }

\* a Program pack whose non-success exit only warns, as the merge/convert
\* run's does
PackProgramTolerant ==
    /\ pc = "pack_program"
    /\ UNCHANGED unitVars
    /\ \E st \in Exits, out \in {{}} \cup { {u} : u \in Packed } :
         /\ calls' = Append(calls,
                Call("pack", [type |-> "nca", ncatype |-> "program",
                              keyset |-> KeysetPath, exefsdir |-> ExefsDir,
                              romfsdir |-> RomfsDir, titleid |-> Get(title_id),
                              outdir |-> NcaDir], st))
         /\ ncaDir' = IF st = "spawn_error" THEN ncaDir ELSE ncaDir \cup out
         /\ IF st # "spawn_error" THEN Goes("rescan") ELSE Ends("error")
    /\ UNCHANGED <<base, update, dirs, keyFile, walked, base_nca, control_nca,
                   update_nca, pactched_nca, title_id, inspectFailed, result>>

\* patch.rs 176-199
PackProgram ==
    /\ pc = "pack_program"
    /\ UNCHANGED unitVars
    /\ \E st \in Exits, out \in {{}} \cup { {u} : u \in Packed } :
         /\ calls' = Append(calls,
                Call("pack", [type |-> "nca", ncatype |-> "program",
                              keyset |-> KeysetPath, exefsdir |-> ExefsDir,
                              romfsdir |-> RomfsDir, titleid |-> Get(title_id),
                              outdir |-> NcaDir], st))
         /\ ncaDir' = IF st = "spawn_error" THEN ncaDir ELSE ncaDir \cup out
         /\ IF st = "success" THEN Goes("rescan") ELSE Ends("error")
    /\ UNCHANGED <<base, update, dirs, keyFile, walked, base_nca, control_nca,
                   update_nca, pactched_nca, title_id, inspectFailed, result>>

\* patch.rs 201-210: the first .nca file of the walk of patch_dir/nca, in
\* read_dir's order, which is any order
Rescan ==
    /\ pc = "rescan"
    /\ UNCHANGED unitVars
    /\ IF \A f \in ncaDir : ~IsNca(Join(AsDir(NcaDir), f.name))
       THEN Goes("pack_meta") /\ UNCHANGED <<pactched_nca, calls>>
       ELSE \E f \in ncaDir :
              LET path == Join(AsDir(NcaDir), f.name)
                  r == NcaFrom(path, f.report)
              IN  /\ IsNca(path)
                  /\ calls' = Append(calls,
                         Call("inspect", [input |-> path], f.report.status))
                  /\ CASE r.kind = "Ok" ->
                            pactched_nca' = Some(r.nca) /\ Goes("pack_meta")
                       [] r.kind = "Err" ->
                            pactched_nca' = pactched_nca /\ Ends("error")
                       [] r.kind = "Panic" ->
                            pactched_nca' = pactched_nca /\ Ends("panic")
    /\ UNCHANGED <<base, update, dirs, keyFile, walked, base_nca, control_nca,
                   update_nca, ncaDir, title_id, inspectFailed, result>>

\* patch.rs 212-239
PackMeta ==
    /\ pc = "pack_meta"
    /\ UNCHANGED unitVars
    /\ IF pactched_nca = None
       THEN Ends("panic") /\ calls' = calls         \* "patched NCA must exist"
       ELSE \E st \in Exits :
              /\ calls' = Append(calls,
                     Call("pack", [type |-> "nca", ncatype |-> "meta",
                                   keyset |-> KeysetPath, titletype |-> "application",
                                   programnca |-> Get(pactched_nca).path,
                                   controlnca |-> Get(control_nca).path,
                                   titleid |-> Get(title_id), outdir |-> NcaDir], st))
              /\ IF st = "success" THEN Goes("pack_nsp") ELSE Ends("error")
    /\ UNCHANGED <<base, update, dirs, keyFile, walked, base_nca, control_nca,
                   update_nca, pactched_nca, ncaDir, title_id, inspectFailed, result>>

\* patch.rs 257
PatchedNspPath(outdir, id) ==
    Join(AsDir(outdir), id \o <<"[yanu-patched]", Dot, "nsp">>)

\* patch.rs 241-280
PackNsp ==
    /\ pc = "pack_nsp"
    /\ UNCHANGED unitVars
    /\ \/ /\ Ends("error")                          \* env::current_exe()?
          /\ calls' = calls
       \/ \E st \in Exits :
            /\ calls' = Append(calls,
                   Call("pack", [type |-> "nsp", keyset |-> KeysetPath,
                                 ncadir |-> NcaDir, titleid |-> Get(title_id),
                                 outdir |-> OutDir], st))
            /\ IF st = "success" THEN Goes("return") ELSE Ends("error")
    /\ UNCHANGED <<base, update, dirs, keyFile, walked, base_nca, control_nca,
                   update_nca, pactched_nca, ncaDir, title_id, inspectFailed, result>>

\* patch.rs 282
ReturnPackage ==
    /\ pc = "return"
    /\ UNCHANGED unitVars
    /\ LET r == NspFrom(PatchedNspPath(OutDir, Get(title_id)))
       IN  IF r.kind = "Ok"
           THEN result' = Some(r.nca) /\ Ends("ok")
           ELSE result' = result /\ Ends("error")
    /\ UNCHANGED <<base, update, dirs, keyFile, walked, base_nca, control_nca,
                   update_nca, pactched_nca, ncaDir, title_id, calls, inspectFailed>>

\* the end of the function, by return or by unwinding: the TempDir locals
\* still alive are dropped
DropLocals ==
    /\ pc = "unwinding"
    /\ UNCHANGED unitVars
    /\ \E rb \in RemovalOutcomes(dirs.base), ru \in RemovalOutcomes(dirs.update),
          rp \in RemovalOutcomes(dirs.patch) :
         dirs' = [base |-> DropTempDir(dirs.base, rb),
                  update |-> DropTempDir(dirs.update, ru),
                  patch |-> DropTempDir(dirs.patch, rp)]
    /\ pc' = CASE outcome.how = "ok" -> "done"
               [] outcome.how = "error" -> "failed"
               [] outcome.how = "panic" -> "panicked"
    /\ walked' = None
    /\ UNCHANGED <<outcome, base, update, keyFile, base_nca, control_nca, update_nca,
                   pactched_nca, ncaDir, title_id, calls, inspectFailed, result>>

Next ==
    \/ ResolveBackends \/ CreateTempDirs \/ ExtractBase \/ ExtractUpdate
    \/ DeriveBase \/ DeriveUpdate \/ SaveTitleKeys
    \/ ScanBase \/ ExpectBase \/ ScanUpdate \/ ExpectUpdate
    \/ MergeConvert \/ RelocateControl \/ EarlyCleanup \/ NormalizeId
    \/ PackProgram \/ Rescan \/ PackMeta \/ PackNsp \/ ReturnPackage
    \/ DropLocals

Spec == Init /\ [][Next]_vars

(* ------------------------ the parts on their own ----------------------- *)
\* no run of the pipeline is going on
PipelineIdle ==
    /\ pc = "idle"
    /\ outcome = [how |-> "none", at |-> "none"]
    /\ base = Idle /\ update = Idle
    /\ dirs = [d \in {"base", "update", "patch"} |-> "none"]
    /\ keyFile = None /\ walked = None
    /\ base_nca = None /\ control_nca = None /\ update_nca = None
    /\ pactched_nca = None
    /\ ncaDir = {} /\ title_id = None /\ calls = <<>>
    /\ inspectFailed = FALSE /\ result = None

(* Nsp::derive_title_key, called again and again on one Package *)
\* what the walk of a search directory may yield: a file that is no ticket,
\* an error of the walk, a .tik file the ticket reader reads key from, or a
\* .tik file it fails on (key None)
SearchEntries ==
    { [kind |-> "file", key |-> None], [kind |-> "walk_error", key |-> None],
      [kind |-> "tik", key |-> Some(BaseKey)], [kind |-> "tik", key |-> Some(UpdateKey)],
      [kind |-> "tik", key |-> None] }
SearchDirs == UNION { [1..n -> SearchEntries] : n \in 0..MaxEntries }

RECURSIVE ScanForTicket(_)
\* rom.rs 88-97: the loop over the walk, up to the first .tik file or error
ScanForTicket(es) ==
    IF es = <<>> THEN None
    ELSE CASE Head(es).kind = "walk_error" -> Some(Err("walk"))
           [] Head(es).kind = "tik" ->
                IF Head(es).key = None THEN Some(Err("io"))
                ELSE Some(Ok(Get(Head(es).key)))
           [] OTHER -> ScanForTicket(Tail(es))

DeriveInit ==
    /\ PipelineIdle
    /\ pkg = NspFrom(BasePath).nca
    /\ derived = <<>>
    /\ arg = Idle /\ ret = Idle /\ guard = Idle /\ fsys = Idle

\* one call of derive_title_key, on any search directory
Derive ==
    /\ Len(derived) < MaxCalls
    /\ \E dir \in SearchDirs :
         LET found == ScanForTicket(dir)
             r == DeriveTitleKey(pkg, found)
         IN  /\ pkg' = r.nsp
             /\ derived' = Append(derived, [before |-> pkg.title_key, found |-> found,
                                            ok |-> r.ok, after |-> r.nsp.title_key])
    /\ UNCHANGED <<pipelineVars, arg, ret, guard, fsys>>

DeriveSpec == DeriveInit /\ [][Derive]_vars

(* CleanupDirsOnDrop, utils/mod.rs 46-89 *)
\* the directories hacpack_cleanup_install registers
DirNames == {"hacpack_temp", "hacpack_backup"}
\* a directory is there, is not there, or is there and cannot be removed
DirStates == {"present", "absent", "locked"}

\* fs::remove_dir_all: the file system after it and the kind of its error
RemoveDirAll(fs, dir) ==
    CASE fs[dir] = "present" -> [fs |-> [fs EXCEPT ![dir] = "absent"], err |-> None]
      [] fs[dir] = "absent"  -> [fs |-> fs, err |-> Some("NotFound")]
      [] fs[dir] = "locked"  -> [fs |-> fs, err |-> Some("PermissionDenied")]

\* an error filter that lets every error through
ReportedAny(err) == TRUE

\* the filter_map of close_impl: the errors that are kept
Reported(err) == err # "NotFound"

RECURSIVE RemoveEach(_, _)
\* the iterator chain of close_impl over the directories left: the file
\* system after it, the removals tried and the errors collected
RemoveEach(ds, acc) ==
    IF ds = <<>> THEN acc
    ELSE LET r == RemoveDirAll(acc.fs, Head(ds))
         IN  RemoveEach(Tail(ds),
                 [fs    |-> r.fs,
                  tried |-> Append(acc.tried,
                               [dir |-> Head(ds),
                                outcome |-> IF r.err = None THEN "removed" ELSE Get(r.err)]),
                  errs  |-> IF r.err # None /\ Reported(Get(r.err))
                            THEN Append(acc.errs, Get(r.err)) ELSE acc.errs])

\* CleanupDirsOnDrop::close_impl on guard g
CloseImpl(g, fs) ==
    LET r == RemoveEach(g.dirs, [fs |-> fs, tried |-> g.tried, errs |-> <<>>])
    IN  [guard |-> [g EXCEPT !.tried = r.tried, !.teardowns = @ + 1],
         fs    |-> r.fs,
         res   |-> IF r.errs = <<>> THEN "Ok" ELSE "Err"]

\* a close that does not forget the guard
ForgetNot(g) == g

\* std::mem::forget: the value's destructor will not run
Forget(g) == [g EXCEPT !.owner = "forgotten"]

\* impl Drop: the value goes out of scope; its destructor runs unless it was
\* forgotten, and the result of close_impl is thrown away
EndOfScope(g, fs) ==
    IF g.owner = "live"
    THEN LET r == CloseImpl(g, fs)
         IN  [guard |-> [r.guard EXCEPT !.owner = "dropped"], fs |-> r.fs]
    ELSE [guard |-> g, fs |-> fs]

\* CleanupDirsOnDrop::new
NewGuard(ds) == [dirs |-> ds, owner |-> "live", tried |-> <<>>, teardowns |-> 0,
                 res |-> None]

GuardInit ==
    /\ PipelineIdle
    /\ guard \in { NewGuard(ds) : ds \in UNION { [1..n -> DirNames] : n \in 0..MaxDirs } }
    /\ fsys \in [DirNames -> DirStates]
    /\ arg = Idle /\ ret = Idle /\ pkg = Idle /\ derived = Idle

\* CleanupDirsOnDrop::close: close_impl, forget, and the end of close's scope
Close ==
    /\ guard.owner = "live"
    /\ LET c == CloseImpl(guard, fsys)
           e == EndOfScope(Forget(c.guard), c.fs)
       IN  /\ guard' = [e.guard EXCEPT !.res = Some(c.res)]
           /\ fsys' = e.fs
    /\ UNCHANGED <<pipelineVars, arg, ret, pkg, derived>>

\* the guard goes out of scope without a close
DropGuard ==
    /\ guard.owner = "live"
    /\ LET e == EndOfScope(guard, fsys)
       IN  guard' = e.guard /\ fsys' = e.fs
    /\ UNCHANGED <<pipelineVars, arg, ret, pkg, derived>>

GuardNext == Close \/ DropGuard
GuardSpec == GuardInit /\ [][GuardNext]_vars

(* Nca::from, applied to any file and any run of the inspector *)
\* file names: the content-unit suffix, another case of it, another suffix,
\* none, and a name that is only a leading dot and the suffix
UnitNames ==
    { <<"unit", Dot, "nca">>, <<"unit", Dot, "NCA">>, <<"unit", Dot, "nsp">>,
      <<"unit">>, <<Dot, "nca">>, <<"unit", Dot, "tar", Dot, "nca">> }
\* the lines a report may have; "Data" is a token that names no NcaType
ReportLines ==
    { Line("", "NCA:"), Line("Title ID:", IdShort), Line("Title ID:", IdLong),
      Line("Content Type:", "Program"), Line("Content Type:", "Control"),
      Line("Content Type:", "Data") }
Reports ==
    { [status |-> st, utf8 |-> u, lines |-> ls] :
        st \in Exits, u \in BOOLEAN,
        ls \in UNION { [1..n -> ReportLines] : n \in 0..MaxLines } }

ClassifyInit ==
    /\ PipelineIdle
    /\ arg \in { [path |-> MkPath(<<TmpName>>, n), report |-> r] :
                   n \in UnitNames, r \in Reports }
    /\ ret = None
    /\ pkg = Idle /\ derived = Idle /\ guard = Idle /\ fsys = Idle

\* one call of Nca::from
Classify ==
    /\ ret = None
    /\ ret' = Some(NcaFrom(arg.path, arg.report))
    /\ UNCHANGED <<pipelineVars, arg, pkg, derived, guard, fsys>>

ClassifySpec == ClassifyInit /\ [][Classify]_vars

(* TitleKey::new, applied to any ticket file *)
\* a blob of len bytes; the byte at offset i (from 0)
ByteAt(blob, i) == (blob.seed + 7 * i) % 256
\* lengths around the two fields: the key field ends at 0x190, the title-id
\* field at 0x2b0
BlobLens == {0, 16, 383, 384, 399, 400, 671, 672, 687, 688, 689, 1024}
TicketFiles ==
    { [exists |-> e, blob |-> [len |-> n, seed |-> sd]] :
        e \in BOOLEAN, n \in BlobLens, sd \in 0..MaxSeed }

\* a read that gives what is there and leaves the rest of the buffer zero
ReadShort(blob, pos, n) ==
    Ok([i \in 1..n |-> IF pos + i - 1 < blob.len THEN ByteAt(blob, pos + i - 1) ELSE 0])

\* seek(SeekFrom::Start(pos)) and read_exact of n bytes
ReadExact(blob, pos, n) ==
    IF pos + n <= blob.len
    THEN Ok([i \in 1..n |-> ByteAt(blob, pos + i - 1)])
    ELSE Err("UnexpectedEof")

\* TitleKey::new, ticket.rs 42-64
TitleKeyNew(file) ==
    IF ~file.exists THEN Err("NotFound")
    ELSE LET id == ReadExact(file.blob, TicketDataTitleId, COMMON_KEY_SIZE)
         IN  IF id.kind = "Err" THEN id
             ELSE LET key == ReadExact(file.blob, TicketDataTitleKey, COMMON_KEY_SIZE)
                  IN  IF key.kind = "Err" THEN key
                      ELSE Ok([title_id |-> id.nca, key |-> key.nca])

TicketInit ==
    /\ PipelineIdle
    /\ arg \in TicketFiles
    /\ ret = None
    /\ pkg = Idle /\ derived = Idle /\ guard = Idle /\ fsys = Idle

\* one call of TitleKey::new
ReadTicket ==
    /\ ret = None
    /\ ret' = Some(TitleKeyNew(arg))
    /\ UNCHANGED <<pipelineVars, arg, pkg, derived, guard, fsys>>

TicketSpec == TicketInit /\ [][ReadTicket]_vars

(* Nsp::from, applied to any file name *)
NameTokens == {"game", Dot, "nsp", "NSP", "nca"}
FileNames == UNION { [1..n -> NameTokens] : n \in 0..MaxTokens }

NspInit ==
    /\ PipelineIdle
    /\ arg \in { MkPath(<<<<"roms">>>>, n) : n \in FileNames }
    /\ ret = None
    /\ pkg = Idle /\ derived = Idle /\ guard = Idle /\ fsys = Idle

\* one call of Nsp::from
MakeNsp ==
    /\ ret = None
    /\ ret' = Some(NspFrom(arg))
    /\ UNCHANGED <<pipelineVars, arg, pkg, derived, guard, fsys>>

NspSpec == NspInit /\ [][MakeNsp]_vars

(* ------------------------------ the claims ----------------------------- *)
Terminal == pc \in {"done", "failed", "panicked"}
CallsOf(tool) == { i \in 1..Len(calls) : calls[i].tool = tool }
\* the stages after the key record is written, in which the run is going on
AfterSave ==
    {"scan_base", "expect_base", "scan_update", "expect_update", "merge", "relocate",
     "early_cleanup", "normalize_id", "pack_program", "rescan", "pack_meta",
     "pack_nsp", "return"}
\* the stages after the update scan
AfterSelection ==
    {"merge", "relocate", "early_cleanup", "normalize_id", "pack_program", "rescan",
     "pack_meta", "pack_nsp", "return"}

\* C1: when the run has ended, however it ended, the removal of every
\* extraction directory that was created has been attempted.
C1_ExtractionDirsReleased ==
    Terminal =>
        \A d \in {"base", "update"} : dirs[d] # "none" => Attempted(dirs[d])

\* C1 witness: the run was aborted by the panic on a missing base unit, with
\* both extraction directories created before.
C1_Witness ==
    /\ pc = "panicked"
    /\ outcome.at = "expect_base"
    /\ Attempted(dirs.base) /\ Attempted(dirs.update)

\* C2: an unpack run that does not exit with success is the last thing the
\* pipeline does: it ends with an error, no later process is run (so a failed
\* base unpack is never followed by the update unpack), the key record is
\* not written and no unit is classified or selected; the base package is
\* unpacked before the update package.
C2_ExtractionFatalAndOrdered ==
    /\ \A i \in CallsOf("unpack") :
         calls[i].status # "success" =>
            /\ i = Len(calls)
            /\ pc \in {"unwinding", "failed"}
            /\ outcome.how = "error"
            /\ keyFile \in {None, Some(OldKeyRecord)}
            /\ walked = None /\ ~inspectFailed
            /\ base_nca = None /\ control_nca = None /\ update_nca = None
            /\ base.title_key = None /\ update.title_key = None
            /\ result = None
    /\ Len(calls) >= 1 => calls[1].tool = "unpack" /\ calls[1].args.input = BasePath
    /\ Len(calls) >= 2 => calls[2].tool = "unpack" /\ calls[2].args.input = UpdatePath
    /\ \A i \in CallsOf("unpack") : i <= 2

\* C2 witness: the base package was unpacked, the unpack of the update
\* package exited non-success, and the run has ended.
C2_Witness ==
    /\ pc = "failed"
    /\ Len(calls) = 2
    /\ calls[1].status = "success"
    /\ calls[2].tool = "unpack" /\ calls[2].status = "failure"

\* the entry the key record has to hold for a package
KeyEntry(nsp, key) ==
    IF nsp.title_key = None THEN <<"=">>
    ELSE HexEncode(key.title_id) \o <<"=">> \o HexEncode(key.key)

\* C3: neither derivation of a title key ends the run, whatever it comes to;
\* and once the key record is written it holds exactly two entries, the base
\* package's then the update package's, each the key's text when the key was
\* derived and "=" when it was not, with nothing of the record's old content.
C3_KeyDerivationNonFatal ==
    /\ [](pc \in AfterSave =>
            /\ keyFile # None
            /\ SplitLines(Get(keyFile)) = <<KeyEntry(base, BaseKey), KeyEntry(update, UpdateKey)>>
            /\ base.title_key \in {None, Some(BaseKey)}
            /\ update.title_key \in {None, Some(UpdateKey)})
    /\ [][/\ pc = "derive_base" => pc' = "derive_update"
          /\ pc = "derive_update" => pc' = "save_keys"
          /\ pc = "save_keys" /\ keyFile' # keyFile => pc' = "scan_base"]_vars

\* C3 witness: the base key was derived, the update key was not, the record
\* that held something else before holds the two entries, and the scan of
\* the base directory is next.
C3_Witness ==
    /\ pc = "scan_base"
    /\ base.title_key # None /\ update.title_key = None
    /\ keyFile # Some(OldKeyRecord)
    /\ Len(SplitLines(Get(keyFile))) = 2
    /\ SplitLines(Get(keyFile))[2] = <<"=">>

\* what C4 says of the merge/convert run and of every run but the
\* inspector's on the files the scans skip
ToleratesOnlyMerge ==
    /\ \A i \in CallsOf("merge") :
         calls[i].status = "failure" => ~(outcome.at = "merge")
    /\ \A i \in 1..Len(calls) :
         (calls[i].status # "success" /\ ~(calls[i].tool = "merge" /\ calls[i].status = "failure"))
            => /\ i = Len(calls)
               /\ pc \in {"unwinding", "failed", "panicked"}
               /\ outcome.how # "ok"
               /\ result = None

\* C4 as it was stated: the merge/convert run is the only run of an external
\* process whose non-success exit the pipeline gets over.
C4_Original ==
    /\ ToleratesOnlyMerge
    /\ inspectFailed => pc # "done"

\* C4, amended: a non-success exit of the merge/convert run does not end the
\* run, and of the unpack, merge/convert, pack and re-scan inspector runs it
\* is the only one the pipeline gets over; the non-success exit of the
\* inspector on a file of the base or update scan is got over as well, the
\* file being skipped.
C4_Amended ==
    /\ ToleratesOnlyMerge
    /\ outcome.at \in {"scan_base", "scan_update"} => outcome.how = "panic"

\* C4 witness: the run ended with success although the merge/convert run
\* exited non-success and a scan skipped a file the inspector failed on.
C4_Witness ==
    /\ pc = "done"
    /\ result # None
    /\ inspectFailed
    /\ \E i \in CallsOf("merge") : calls[i].status = "failure"

\* the walk the last loop took, and the files in it
Order == EntriesOf(Get(walked))
FilesWalked == { i \in 1..Len(Order) : ~Order[i].isDir }
\* the file at place i of the walk of root classifies as a unit of type ty
ClassifiesAs(root, i, ty) ==
    LET r == NcaFrom(EntryPath(root, Order[i]), ReportOf(Order[i].name))
    IN  r.kind = "Ok" /\ r.nca.content_type = ty
\* the place in the walk of root of the unit nca
PlaceOf(root, nca) ==
    CHOOSE i \in FilesWalked : EntryPath(root, Order[i]) = nca.path

\* C5: the base unit selected is a unit that classifies as Program, and no
\* unit anywhere under the base directory, nested or not, that classifies as
\* Program is strictly smaller.
C5_Claim ==
    (pc = "expect_base" /\ base_nca # None) =>
        /\ \E i \in FilesWalked : EntryPath(BaseData, Order[i]) = Get(base_nca).path
        /\ ClassifiesAs(BaseData, PlaceOf(BaseData, Get(base_nca)), "Program")
        /\ \A j \in FilesWalked :
              ClassifiesAs(BaseData, j, "Program") =>
                 ~(Order[j].size < Order[PlaceOf(BaseData, Get(base_nca))].size)

HasCall(tool) == CallsOf(tool) # {}

\* C6: when no unit of the base walk classifies as Program none is selected,
\* and likewise for Control and Program of the update walk; and with one of
\* the three units missing the run goes no further than the expect that
\* finds it missing, where it panics: no merge/convert run, no pack run, no
\* Package.
C6_MissingUnitFatal ==
    /\ (pc = "expect_base" /\ \A i \in FilesWalked : ~ClassifiesAs(BaseData, i, "Program"))
          => base_nca = None
    /\ (pc = "expect_update" /\ \A i \in FilesWalked : ~ClassifiesAs(UpdateData, i, "Control"))
          => control_nca = None
    /\ (pc = "expect_update" /\ \A i \in FilesWalked : ~ClassifiesAs(UpdateData, i, "Program"))
          => update_nca = None
    /\ (base_nca = None /\ pc # "expect_base") =>
          pc \notin {"scan_update", "expect_update"} \cup AfterSelection
    /\ ((control_nca = None \/ update_nca = None) /\ pc # "expect_update") =>
          pc \notin AfterSelection
    /\ (base_nca = None \/ control_nca = None \/ update_nca = None) =>
          /\ ~HasCall("merge") /\ ~HasCall("pack")
          /\ result = None /\ pc # "done"
    /\ outcome.at \in {"expect_base", "expect_update"} => outcome.how = "panic"

\* C6 witness: the update walk held a Program unit and no Control unit, and
\* the run has ended in the panic of the expect.
C6_Witness ==
    /\ pc = "panicked"
    /\ outcome.at = "expect_update"
    /\ base_nca # None /\ update_nca # None /\ control_nca = None

\* the first unit of the walk of root that classifies as ty
FirstOfType(root, ty) ==
    IF \A i \in FilesWalked : ~ClassifiesAs(root, i, ty) THEN None
    ELSE LET k == CHOOSE i \in FilesWalked :
                     /\ ClassifiesAs(root, i, ty)
                     /\ \A j \in FilesWalked : ClassifiesAs(root, j, ty) => i <= j
         IN  Some(NcaFrom(EntryPath(root, Order[k]), ReportOf(Order[k].name)).nca)

\* C7: at the end of the update scan the Control unit selected is the first
\* unit of the walk that classifies as Control and the Program unit selected
\* is the first that classifies as Program, whatever the order of the walk.
C7_FirstOfEachType ==
    pc = "expect_update" =>
        /\ control_nca = FirstOfType(UpdateData, "Control")
        /\ update_nca = FirstOfType(UpdateData, "Program")

\* C7 witness: the walk held two Control units, the first of them selected.
C7_Witness ==
    /\ pc = "expect_update"
    /\ control_nca # None
    /\ \E j \in FilesWalked :
         /\ j > PlaceOf(UpdateData, Get(control_nca))
         /\ ClassifiesAs(UpdateData, j, "Control")

\* the scan ended the run on a file it could not classify
ScanGaveUp == outcome.at \in {"scan_base", "scan_update"} /\ walked # None

\* C8: a file that fails to classify never ends the run: the scan goes on
\* with the files left, and a unit that classifies as Program elsewhere in
\* the base directory is selected.
C8_Claim ==
    /\ ~ScanGaveUp
    /\ (pc = "expect_base" /\ \E i \in FilesWalked : ClassifiesAs(BaseData, i, "Program"))
          => base_nca # None

PackCalls == SelectSeq(calls, LAMBDA c : c.tool = "pack")
PackKind(c) == IF c.args.type = "nsp" THEN "nsp" ELSE c.args.ncatype
\* the prefix of at most n characters
PrefixOf(str, n) == [i \in 1..(IF Len(str) < n THEN Len(str) ELSE n) |-> str[i]]

\* C9: the pack runs are, in this order, the Program build, the Meta build
\* and the bundle, each run at most once and each after the one before it
\* exited with success; and a Package is returned only after all three
\* exited with success, its path being the file
\* <normalized id>[yanu-patched].nsp of the output directory.
C9_PackOrderAndResult ==
    /\ Len(PackCalls) <= 3
    /\ \A i \in 1..Len(PackCalls) :
         /\ PackKind(PackCalls[i]) = <<"program", "meta", "nsp">>[i]
         /\ i < Len(PackCalls) => PackCalls[i].status = "success"
    /\ result # None =>
         /\ Len(PackCalls) = 3
         /\ \A i \in 1..3 : PackCalls[i].status = "success"
         /\ DirOf(Get(result).path) = <<<<"opt">>, <<"yanu">>>>
         /\ FileName(Get(result).path) =
               PrefixOf(Get(Get(base_nca).title_id), TITLEID_SZ)
                   \o <<"[yanu-patched]", ".", "nsp">>
    /\ pc = "done" => result # None
    /\ result # None => outcome.how = "ok"

\* C9 witness: a Package was returned for a base unit whose title id is
\* longer than the normalized id.
C9_Witness ==
    /\ pc = "done"
    /\ result # None
    /\ Len(Get(Get(base_nca).title_id)) > TITLEID_SZ

MetaCalls == { i \in CallsOf("pack") : calls[i].args.type = "nca" /\ calls[i].args.ncatype = "meta" }

\* C10: the unit given to the Meta pack as the Program unit is the unit the
\* Program pack built, never the Control unit moved into the same directory;
\* and when the Program pack built no unit the Meta pack is not run.
C10_Claim ==
    \A i \in MetaCalls :
        /\ calls[i].args.programnca # calls[i].args.controlnca
        /\ \E u \in ncaDir :
              /\ u \in Packed
              /\ calls[i].args.programnca = Join(AsDir(NcaDir), u.name)

\* C11: over the derive_title_key calls made on one Package the key changes
\* only from absent to present; a call made with the key present succeeds
\* and leaves the key as it is, whatever the search directory holds (no
\* ticket, another ticket, a failing walk); a call that fails leaves the key
\* absent.
C11_DeriveIdempotent ==
    /\ \A i \in 1..Len(derived) :
         LET d == derived[i]
         IN  /\ d.before # None => d.ok /\ d.after = d.before
             /\ d.before = None /\ d.ok => d.after # None
             /\ ~d.ok => d.before = None /\ d.after = None
             /\ d.before = (IF i = 1 THEN None ELSE derived[i - 1].after)
    /\ derived # <<>> => pkg.title_key = derived[Len(derived)].after

\* C11 witness: the key was derived from the base ticket, then a call found
\* the update ticket and a call found no ticket at all.
C11_Witness ==
    /\ Len(derived) = 3
    /\ derived[1].after = Some(BaseKey)
    /\ derived[2].found = Some(Ok(UpdateKey))
    /\ derived[3].found = None
    /\ pkg.title_key = Some(BaseKey)

\* the outcomes of the removals tried on the guard's directories
TriedDirs == [i \in 1..Len(guard.tried) |-> guard.tried[i].dir]

\* C12: a close tries the removal of every registered directory, whatever
\* came of the removals before; it returns an error exactly when a removal
\* failed for another reason than the directory not being there, so a guard
\* whose directories are all absent closes with success; and a directory
\* that could be removed is gone afterwards.
C12_CloseTriesEveryDir ==
    guard.res # None =>
        /\ TriedDirs = guard.dirs
        /\ (Get(guard.res) = "Err") <=>
              (\E i \in 1..Len(guard.dirs) : fsys[guard.dirs[i]] = "locked")
        /\ (\A i \in 1..Len(guard.tried) : guard.tried[i].outcome = "NotFound")
              => Get(guard.res) = "Ok"
        /\ \A i \in 1..Len(guard.dirs) : fsys[guard.dirs[i]] # "present"

\* C12 witness: the first directory could not be removed, the second was
\* removed all the same, and the close returned an error.
C12_Witness ==
    /\ guard.res = Some("Err")
    /\ Len(guard.tried) = 2
    /\ guard.tried[1].outcome = "PermissionDenied"
    /\ guard.tried[2].outcome = "removed"

\* C13: the teardown of a guard runs exactly once: not before the guard is
\* closed or dropped, once when it is closed (the drop does not follow), once
\* when it is dropped without a close; no directory list is gone through
\* twice.
C13_TornDownOnce ==
    /\ guard.owner = "live" => guard.teardowns = 0 /\ guard.tried = <<>>
    /\ guard.owner # "live" => guard.teardowns = 1 /\ TriedDirs = guard.dirs
    /\ guard.owner = "forgotten" <=> guard.res # None

\* C13 witness: a guard of two directories was closed explicitly.
C13_Witness ==
    /\ guard.owner = "forgotten"
    /\ guard.teardowns = 1
    /\ Len(guard.dirs) = 2

\* the lines of the report that hold the marker
LinesWith(lines, m) == SelectSeq(lines, LAMBDA l : l.marker = m)
\* the name ends in the content-unit suffix
HasUnitSuffix(name) ==
    /\ Len(name) >= 3
    /\ name[Len(name)] = "nca" /\ name[Len(name) - 1] = Dot

\* C14: Nca::from returns a unit only when the name has the suffix nca, the
\* inspector exited with success and the first Content Type line of its
\* report ends in Control, Program, Meta or Manual; in every other case it
\* returns an error value; the unit's type is that token and its title id
\* the last token of the first Title ID line, absent without such a line.
C14_Claim ==
    ret # None =>
        LET r  == Get(ret)
            cs == LinesWith(arg.report.lines, "Content Type:")
            ts == LinesWith(arg.report.lines, "Title ID:")
            classifiable ==
                /\ HasUnitSuffix(arg.path.name)
                /\ arg.report.status = "success" /\ arg.report.utf8
                /\ cs # <<>> /\ cs[1].last \in {"Control", "Program", "Meta", "Manual"}
        IN  /\ r.kind \in {"Ok", "Err"}
            /\ r.kind = "Ok" <=> classifiable
            /\ r.kind = "Ok" =>
                  /\ r.nca.path = arg.path
                  /\ r.nca.content_type = cs[1].last
                  /\ r.nca.title_id = (IF ts = <<>> THEN None ELSE Some(ts[1].last))

\* C15: the ticket reader returns an error and no key for a blob shorter
\* than 0x2b0 = 688 bytes, also when the blob is long enough for the key
\* field; for a blob of 688 bytes or more it returns the 16 bytes at 0x2a0 =
\* 672 as title_id and the 16 bytes at 0x180 = 384 as key.
C15_TicketAllOrNothing ==
    (ret # None /\ arg.exists) =>
        LET r == Get(ret)
        IN  /\ arg.blob.len < 688 => r.kind = "Err"
            /\ arg.blob.len >= 688 =>
                  /\ r.kind = "Ok"
                  /\ r.nca.title_id = [i \in 1..16 |-> ByteAt(arg.blob, 672 + i - 1)]
                  /\ r.nca.key = [i \in 1..16 |-> ByteAt(arg.blob, 384 + i - 1)]

\* C15 witness: the reader was given a blob that holds the whole key field
\* and not the whole title-id field.
C15_Witness ==
    /\ ret # None /\ arg.exists
    /\ arg.blob.len >= 400 /\ arg.blob.len < 688
    /\ Get(ret).kind = "Err"

\* C16: Nsp::from makes a Package exactly of the paths whose name ends in a
\* dot and the lower-case suffix nsp after something else; a name with
\* another suffix, the suffix in another case or no suffix gets an error and
\* no Package; the Package made has the path given and no title key.
C16_NspFromSuffix ==
    ret # None =>
        LET r == Get(ret)
            n == arg.name
            suffixed == /\ Len(n) >= 3
                        /\ n[Len(n)] = "nsp" /\ n[Len(n) - 1] = Dot
        IN  /\ r.kind = IF suffixed THEN "Ok" ELSE "Err"
            /\ r.kind = "Ok" => r.nca.path = arg /\ r.nca.title_key = None

\* C16 witness: the name given ends in the suffix in upper case and was
\* rejected.
C16_Witness ==
    /\ ret # None
    /\ arg.name = <<"game", Dot, "NSP">>
    /\ Get(ret).kind = "Err"

\* C17: the base unit selected is the biggest Program unit: no unit of the
\* base walk that classifies as Program is strictly larger than it.
C17_Claim ==
    (pc = "expect_base" /\ base_nca # None) =>
        \A j \in FilesWalked :
            ClassifiesAs(BaseData, j, "Program") =>
                ~(Order[j].size > Order[PlaceOf(BaseData, Get(base_nca))].size)

\* the stages from the creation of the extraction directories up to their
\* early release, and the stages after it
UpToRelease ==
    {"extract_base", "extract_update", "derive_base", "derive_update", "save_keys",
     "scan_base", "expect_base", "scan_update", "expect_update", "merge", "relocate",
     "early_cleanup"}
AfterRelease ==
    {"normalize_id", "pack_program", "rescan", "pack_meta", "pack_nsp", "return"}

\* C18: while the run is going on, the extraction directories are not
\* released before the early cleanup; from the early cleanup on both have
\* been released, the merge/convert run has been made and the Control unit
\* is in the patch workspace; no pack run is made before the release; and
\* the early cleanup goes on to the id normalisation whether or not the
\* removals went through.
C18_EarlyReleaseOrdered ==
    /\ [](/\ pc \in UpToRelease =>
               dirs.base = "live" /\ dirs.update = "live" /\ ~HasCall("pack")
          /\ pc \in AfterRelease =>
               /\ Attempted(dirs.base) /\ Attempted(dirs.update)
               /\ HasCall("merge")
               /\ DirOf(Get(control_nca).path) = AsDir(NcaDir)
               /\ \E f \in ncaDir : f.name = FileName(Get(control_nca).path)
          /\ HasCall("pack") => Attempted(dirs.base) /\ Attempted(dirs.update))
    /\ [][pc = "early_cleanup" => pc' = "normalize_id"]_vars

\* C18 witness: neither extraction directory could be removed at the early
\* cleanup, and the run went through the three pack runs and returned the
\* Package.
C18_Witness ==
    /\ pc = "done" /\ result # None
    /\ dirs.base = "remove_failed" /\ dirs.update = "remove_failed"
    /\ Len(PackCalls) = 3

\* the file name of the output package for the id
OutputName(id) == id \o <<"[yanu-patched]", ".", "nsp">>

\* C19: the normalized id is the prefix of at most 16 characters of the
\* title id of the base unit selected; once computed it does not change;
\* every pack run is given that id, and the output file name is made of it;
\* the ids of the update units have no part in it.
C19_OneNormalizedId ==
    /\ [](/\ title_id # None =>
               /\ base_nca # None /\ Get(base_nca).title_id # None
               /\ Get(title_id) = PrefixOf(Get(Get(base_nca).title_id), 16)
          /\ \A i \in CallsOf("pack") :
               /\ title_id # None
               /\ calls[i].args.titleid = Get(title_id)
          /\ result # None =>
               FileName(Get(result).path)
                  = OutputName(PrefixOf(Get(Get(base_nca).title_id), 16)))
    /\ [][title_id # None => title_id' = title_id]_vars
    /\ [][(base_nca # None /\ pc # "scan_base") => base_nca' = base_nca]_vars

\* C19 witness: the Package was returned after three pack runs, the title id
\* of the base unit being longer than 16 characters and not the title id of
\* the Program unit of the update.
C19_Witness ==
    /\ pc = "done" /\ result # None
    /\ Len(PackCalls) = 3
    /\ Len(Get(Get(base_nca).title_id)) > 16
    /\ Get(update_nca).title_id # Get(base_nca).title_id
    /\ Get(control_nca).title_id # Get(base_nca).title_id

\* the base unit selected was classified without a title id
BaseWithoutId == base_nca # None /\ Get(base_nca).title_id = None
\* what C20 says of the run apart from the removals
StopsAtNormalisation ==
    BaseWithoutId =>
        /\ pc \notin {"pack_program", "rescan", "pack_meta", "pack_nsp", "return", "done"}
        /\ title_id = None
        /\ ~HasCall("pack")
        /\ result = None
        /\ outcome.at = "normalize_id" => outcome.how \in {"panic", "error"}

\* C20 as it was stated: with a base unit without title id the run ends in
\* failure no later than the id normalisation, with no pack run and no
\* Package, and when it has ended there the extraction directories and the
\* patch workspace are removed.
C20_Original ==
    /\ StopsAtNormalisation
    /\ (BaseWithoutId /\ Terminal /\ outcome.at = "normalize_id") =>
          \A d \in {"base", "update", "patch"} : dirs[d] = "removed"

\* C20, amended: as stated, but of the directories it holds that their
\* removal has been attempted: a removal that fails is ignored and leaves
\* the directory behind.
C20_Amended ==
    /\ StopsAtNormalisation
    /\ (BaseWithoutId /\ Terminal /\ outcome.at = "normalize_id") =>
          \A d \in {"base", "update", "patch"} : Attempted(dirs[d])

\* C20 witness: the run panicked at the id normalisation on a base unit
\* without title id, after the patch workspace was created.
C20_Witness ==
    /\ pc = "panicked"
    /\ outcome.at = "normalize_id"
    /\ BaseWithoutId
    /\ \A d \in {"base", "update", "patch"} : Attempted(dirs[d])

\* path p is directory d or lies under it
IsPrefix(q, t) == Len(q) <= Len(t) /\ SubSeq(t, 1, Len(q)) = q
Under(d, p) == p = d \/ IsPrefix(AsDir(d), DirOf(p))
InExtractionDirs(p) == Under(BaseData, p) \/ Under(UpdateData, p)
\* the paths among the arguments of a run
PathArgs(c) ==
    { c.args[f] : f \in DOMAIN c.args \ {"t", "type", "ncatype", "titletype", "titleid"} }
Released == Attempted(dirs.base) \/ Attempted(dirs.update)

\* C21: a process run after an extraction directory was released is given
\* no path under either extraction directory, nor is such a path read by
\* the re-scan; the Control unit given to the Meta pack is the moved file in
\* the patch workspace; the paths of the base and update Program units are
\* given to the merge/convert run only, which is made while both
\* directories are there.
C21_NoUseAfterRelease ==
    /\ [](/\ \A i \in 1..Len(calls) :
               IF calls[i].tool = "merge"
               THEN /\ Under(BaseData, calls[i].args.basenca)
                    /\ Under(UpdateData, calls[i].args.updatenca)
               ELSE calls[i].tool \in {"pack", "inspect"} =>
                      \A p \in PathArgs(calls[i]) : ~InExtractionDirs(p)
          /\ \A i \in MetaCalls :
               /\ Under(NcaDir, calls[i].args.controlnca)
               /\ calls[i].args.controlnca = Get(control_nca).path
               /\ Under(NcaDir, calls[i].args.programnca)
          /\ pc \in AfterRelease =>
               /\ Under(NcaDir, Get(control_nca).path)
               /\ pactched_nca # None => Under(NcaDir, Get(pactched_nca).path))
    /\ [][calls' # calls =>
            /\ calls'[Len(calls')].tool = "merge" =>
                  dirs'.base = "live" /\ dirs'.update = "live"
            /\ Released =>
                  \A p \in PathArgs(calls'[Len(calls')]) : ~InExtractionDirs(p)]_vars

\* C21 witness: the Meta pack was run after the release, while the paths
\* held for the base and update Program units, given to the merge/convert
\* run before, are still paths under the extraction directories.
C21_Witness ==
    /\ MetaCalls # {}
    /\ Released
    /\ Under(BaseData, Get(base_nca).path)
    /\ Under(UpdateData, Get(update_nca).path)
    /\ \E i \in CallsOf("merge") : calls[i].args.basenca = Get(base_nca).path

====
